---- MODULE Spec2Model ----
(***************************************************************************)
(* The media viewer of ComfyBros.  Two front ends are modelled, and a page  *)
(* runs one of them: the Svelte application (Modal.svelte, the stores of   *)
(* stores.js, the swipe action of gestures.js, the openModal of            *)
(* Gallery.svelte) and the static gallery page (class MediaGallery).       *)
(*                                                                         *)
(* Every handler of the source is an operator from a state record to a     *)
(* state record, so that a handler that calls another one (a swipe         *)
(* callback calling navigate, a key handler running twice) is the          *)
(* composition of the operators.  An action applies the handlers one DOM   *)
(* event runs and commits the record that results.                         *)
(***************************************************************************)
EXTENDS Integers, Sequences, FiniteSets, TLC

(* ------------------------------ bounds -------------------------------- *)
MaxLen == 3
MaxTimers == 2
MaxPending == 2
MaxTouches == 3

(* -------------------------- program constants ------------------------- *)
threshold == 50
timeLimit == 500

(* JavaScript null / undefined of startX and startY; coordinates are >= 0 *)
null == -1

(* clientX / clientY values of the touch samples: the displacements they   *)
(* give include 0, 1, 48, 49, 50, 51 and larger ones in both directions    *)
Coords == {0, 100, 150, 151, 199}

(* two positions, enough for one swipe in each direction *)
CoarseCoords == {100, 200}

(* values Date.now() takes while a gesture lasts: 499, 500, 501 ms apart *)
GestureTimes == {1000, 1499, 1500, 1501}

(* values Date.now() takes between taps: 50, 51, 499, 500, 550 ms apart *)
TapTimes == {1000, 1050, 1051, 1550}

Items == 1..MaxLen

VARIABLES
    mediaStore,         \* stores.js mediaStore: the ordered collection (item ids)
    modalOpen,          \* stores.js modalOpen
    currentIndex,       \* stores.js currentIndex (0-based)
    isTransitioning,    \* Modal.svelte locals
    isZoomed,
    isDoubleTabZoomed,
    isPinching,
    activeTouches,
    lastTap,
    mediaElement,       \* "null", "current" (the displayed element) or "old" (a replaced one)
    startX,             \* gestures.js closure of swipe()
    startY,
    startTime,
    isScrolling,
    timers,             \* pending setTimeout callbacks
    superseded,         \* of the pending callbacks, those set before the index last changed
    pending,            \* DELETE requests in flight: item id -> number of requests
    loadPending,        \* the displayed element has not fired load yet
    scale,              \* style.transform of the displayed element: scale(1) or scale(2)
    touches,            \* fingers on the screen, by the element they went down on:
                        \* the displayed media, a button of the modal, the rest
    now,                \* Date.now()
    console,            \* what the last event logged with console.log
    page,               \* the front end the page runs: "svelte" or "gallery"
    gallery,            \* MediaGallery: filteredFiles, currentIndex, modal hidden
    touchHandling,      \* closure of MediaGallery.setupTouchHandling
    fingers             \* gallery page: fingers down, by the kind of their target

vars == <<page, gallery, touchHandling, fingers, mediaStore, modalOpen, currentIndex, isTransitioning, isZoomed,
          isDoubleTabZoomed, isPinching, activeTouches, lastTap, mediaElement,
          startX, startY, startTime, isScrolling, timers, superseded, pending, loadPending,
          scale, touches, now, console>>

(* the state as one record, and the commit of a record *)
St ==
    [mediaStore |-> mediaStore, modalOpen |-> modalOpen, currentIndex |-> currentIndex,
     isTransitioning |-> isTransitioning, isZoomed |-> isZoomed,
     isDoubleTabZoomed |-> isDoubleTabZoomed, isPinching |-> isPinching,
     activeTouches |-> activeTouches, lastTap |-> lastTap, mediaElement |-> mediaElement,
     startX |-> startX, startY |-> startY, startTime |-> startTime,
     isScrolling |-> isScrolling, timers |-> timers, superseded |-> superseded,
     pending |-> pending,
     loadPending |-> loadPending, scale |-> scale, touches |-> touches, now |-> now, console |-> <<>>,
     page |-> page, gallery |-> gallery, touchHandling |-> touchHandling,
     fingers |-> fingers]

Commit(s) ==
    /\ mediaStore' = s.mediaStore
    /\ modalOpen' = s.modalOpen
    /\ currentIndex' = s.currentIndex
    /\ isTransitioning' = s.isTransitioning
    /\ isZoomed' = s.isZoomed
    /\ isDoubleTabZoomed' = s.isDoubleTabZoomed
    /\ isPinching' = s.isPinching
    /\ activeTouches' = s.activeTouches
    /\ lastTap' = s.lastTap
    /\ mediaElement' = s.mediaElement
    /\ startX' = s.startX
    /\ startY' = s.startY
    /\ startTime' = s.startTime
    /\ isScrolling' = s.isScrolling
    /\ timers' = s.timers
    /\ superseded' = s.superseded
    /\ pending' = s.pending
    /\ loadPending' = s.loadPending
    /\ scale' = s.scale
    /\ touches' = s.touches
    /\ now' = s.now
    /\ console' = s.console
    /\ page' = s.page
    /\ gallery' = s.gallery
    /\ touchHandling' = s.touchHandling
    /\ fingers' = s.fingers

Abs(n) == IF n < 0 THEN -n ELSE n

Min(a, b) == IF a < b THEN a ELSE b

(* console.log(m, a) *)
Log(s, m, a) == [s EXCEPT !.console = Append(@, <<m, a>>)]

RECURSIVE SumUpTo(_, _)
SumUpTo(f, n) == IF n = 0 THEN 0 ELSE f[n] + SumUpTo(f, n - 1)

(* DELETE requests in flight *)
PendingCount(p) == SumUpTo(p, MaxLen)

(* event.touches.length *)
TouchCount(t) == t.media + t.other + t.chrome

(* ------------------------------ stores.js ----------------------------- *)
(* filteredMedia: filterOption 'all' and a collection that is loaded in    *)
(* sort order, so the derived list is the store's list                     *)
filteredMedia(s) == s.mediaStore

(* currentMedia: $filteredMedia[$currentIndex] || null ; 0 stands for null *)
currentMedia(s) ==
    IF s.currentIndex >= 0 /\ s.currentIndex < Len(filteredMedia(s))
    THEN filteredMedia(s)[s.currentIndex + 1]
    ELSE 0

(* currentIndex.set(i): {#key $currentIndex} replaces the media element    *)
(* when the value changes; the new element has no listeners until it loads *)
setCurrentIndex(s, i) ==
    IF i = s.currentIndex THEN s
    ELSE [s EXCEPT !.currentIndex = i,
                   !.loadPending = TRUE,
                   !.scale = 1,
                   !.superseded = [transition |-> s.timers.transition,
                                   pinch |-> s.timers.pinch],
                   !.mediaElement = IF @ = "null" THEN "null" ELSE "old"]

(* --------------------------- Modal.svelte ----------------------------- *)
NoTimers == [transition |-> 0, pinch |-> 0, stale |-> 0]

NoneSuperseded == [transition |-> 0, pinch |-> 0]

TimerCount(t) == t.transition + t.pinch + t.stale

(* the component instance is destroyed: its timers and its locals survive  *)
(* only in closures nobody reads, and the next <Modal /> starts from the   *)
(* initial values of the script                                            *)
destroyModal(s) ==
    [s EXCEPT !.isTransitioning = FALSE,
              !.isZoomed = FALSE,
              !.isDoubleTabZoomed = FALSE,
              !.isPinching = FALSE,
              !.activeTouches = 0,
              !.lastTap = 0,
              !.mediaElement = "null",
              !.startX = null,
              !.startY = null,
              !.startTime = 0,
              !.isScrolling = FALSE,
              !.loadPending = FALSE,
              !.scale = 1,
              !.touches = [media |-> 0, other |-> 0, chrome |-> 0],
              !.superseded = NoneSuperseded,
              !.timers = [transition |-> 0, pinch |-> 0,
                          stale |-> @.transition + @.pinch + @.stale]]

closeModal(s) ==
    IF s.modalOpen THEN destroyModal([s EXCEPT !.modalOpen = FALSE]) ELSE s

(* the guard of navigate, with a guard that forgets the zoom and one that  *)
(* forgets the transition                                                  *)
navigationBlocked_transitionOnly(s) == s.isTransitioning

navigationBlocked_zoomOnly(s) == s.isZoomed

navigationBlocked(s) == s.isTransitioning \/ s.isZoomed

(* the wrap of navigate, and a step that stops at the ends instead *)
wrappedIndex_stopAtEnds(stepped, maxIndex) ==
    IF stepped < 0 THEN 0
    ELSE IF stepped > maxIndex THEN maxIndex
    ELSE stepped

wrappedIndex(stepped, maxIndex) ==
    IF stepped < 0 THEN maxIndex
    ELSE IF stepped > maxIndex THEN 0
    ELSE stepped

(* a navigate that schedules the release without raising the flag *)
navigate_flagless(s, direction) ==
    LET s0 == Log(s, "Navigate called", direction) IN
    IF navigationBlocked(s0)
    THEN Log(s0, "Navigation blocked", 0)
    ELSE LET s1 == [s0 EXCEPT !.isZoomed = FALSE,
                              !.isDoubleTabZoomed = FALSE,
                              !.isPinching = FALSE,
                              !.activeTouches = 0]
             maxIndex == Len(filteredMedia(s1)) - 1
             newIndex == wrappedIndex(s1.currentIndex + direction, maxIndex)
             s2 == setCurrentIndex(Log(s1, "Navigating to", newIndex), newIndex)
         IN [s2 EXCEPT !.timers.transition = @ + 1]

navigate(s, direction) ==
    LET s0 == Log(s, "Navigate called", direction) IN
    IF navigationBlocked(s0)
    THEN Log(s0, "Navigation blocked", 0)
    ELSE LET s1 == [s0 EXCEPT !.isTransitioning = TRUE,
                              !.isZoomed = FALSE,
                              !.isDoubleTabZoomed = FALSE,
                              !.isPinching = FALSE,
                              !.activeTouches = 0]
             maxIndex == Len(filteredMedia(s1)) - 1
             newIndex == wrappedIndex(s1.currentIndex + direction, maxIndex)
             s2 == setCurrentIndex(Log(s1, "Navigating to", newIndex), newIndex)
         IN [s2 EXCEPT !.timers.transition = @ + 1]

previousImage(s) == navigate(s, -1)

nextImage(s) == navigate(s, 1)

(* a callback that leaves the flag alone *)
transitionTimeout_keepsFlag(s) == s

(* setTimeout(() => { isTransitioning = false }, 300) *)
transitionTimeout(s) == [s EXCEPT !.isTransitioning = FALSE]

(* mediaElement touchstart listener; n is event.touches.length *)
handleTouchStart(s, n) ==
    LET s1 == [s EXCEPT !.activeTouches = n] IN
    IF n = 2
    THEN Log([s1 EXCEPT !.isPinching = TRUE, !.isZoomed = TRUE], "Pinch started", 0)
    ELSE s1

(* mediaElement touchmove listener *)
handleTouchMove(s, n) ==
    IF n = 2 THEN [s EXCEPT !.isPinching = TRUE, !.isZoomed = TRUE] ELSE s

(* mediaElement touchend listener: the body of the timeout is pinchTimeout *)
handleTouchEnd(s, n) ==
    LET s1 == [s EXCEPT !.activeTouches = n] IN
    IF n = 0 THEN [s1 EXCEPT !.timers.pinch = @ + 1] ELSE s1

(* a callback that does not look at the double-tap zoom *)
pinchTimeout_ignoresDoubleTap(s) ==
    LET s1 == IF s.activeTouches = 0 /\ ~s.isPinching
              THEN Log([s EXCEPT !.isZoomed = FALSE], "Navigation re-enabled", 0)
              ELSE s
    IN [s1 EXCEPT !.isPinching = FALSE]

pinchTimeout(s) ==
    LET s1 == IF s.activeTouches = 0 /\ ~s.isPinching /\ ~s.isDoubleTabZoomed
              THEN Log([s EXCEPT !.isZoomed = FALSE], "Navigation re-enabled", 0)
              ELSE s
    IN [s1 EXCEPT !.isPinching = FALSE]

toggleDoubleTabZoom(s) ==
    IF s.mediaElement = "null" THEN s
    ELSE LET s1 == [s EXCEPT !.isDoubleTabZoomed = ~@] IN
         LET s2 == [s1 EXCEPT !.isZoomed = s1.isDoubleTabZoomed,
                              \* the style of a replaced element is not on display
                              !.scale = IF s1.mediaElement = "current"
                                        THEN (IF s1.isDoubleTabZoomed THEN 2 ELSE 1)
                                        ELSE @] IN
         IF s2.isDoubleTabZoomed
         THEN Log(s2, "Double-tap zoom: IN", 0)
         ELSE Log(s2, "Double-tap zoom: OUT", 0)

(* "between 50ms and 500ms", and a window that takes 500 ms in *)
isDoubleTapLength_upTo500(tapLength) == tapLength <= 500 /\ tapLength > 50

isDoubleTapLength(tapLength) == tapLength < 500 /\ tapLength > 50

(* mediaElement click listener *)
handleDoubleTap(s) ==
    LET currentTime == s.now
        tapLength == currentTime - s.lastTap
        s1 == IF isDoubleTapLength(tapLength) THEN toggleDoubleTabZoom(s) ELSE s
    IN [s1 EXCEPT !.lastTap = currentTime]

(* on:load / on:loadedmetadata of the displayed element *)
handleMediaLoad(s) ==
    [s EXCEPT !.mediaElement = "current",
              !.isZoomed = FALSE,
              !.isPinching = FALSE,
              !.activeTouches = 0,
              !.isDoubleTabZoomed = FALSE,
              !.scale = 1,
              !.loadPending = FALSE]

(* deleteCurrentMedia up to the await: the request for $currentMedia.path  *)
deleteRequest(s) == [s EXCEPT !.pending[currentMedia(s)] = @ + 1]

(* the index after a delete, one that is left alone and one that wraps *)
adjustedIndex_unadjusted(currentIdx, newLength) == currentIdx

adjustedIndex_wrapping(currentIdx, newLength) ==
    IF currentIdx >= newLength THEN 0 ELSE currentIdx

adjustedIndex(currentIdx, newLength) ==
    IF currentIdx >= newLength THEN newLength - 1 ELSE currentIdx

(* deleteCurrentMedia after the await, response.ok: the $store reads are   *)
(* the values the stores hold when the continuation runs                   *)
deleteResponseOk(s) ==
    LET currentArray == filteredMedia(s)
        currentIdx == s.currentIndex
        inRange == currentIdx >= 0 /\ currentIdx < Len(currentArray)
        newLength == IF inRange THEN Len(currentArray) - 1 ELSE Len(currentArray)
        gone == currentMedia(s)
    IN IF gone = 0 /\ Len(s.mediaStore) > 0
       THEN s     \* $currentMedia.path throws inside update; the catch alerts
       ELSE LET s1 == [s EXCEPT !.mediaStore = SelectSeq(@, LAMBDA item : item # gone)]
                s2 == IF newLength = 0
                      THEN closeModal(s1)
                      ELSE setCurrentIndex(s1, adjustedIndex(currentIdx, newLength))
            IN \* the same element gets a new src when the index stays
               IF s2.modalOpen /\ currentMedia(s2) # gone /\ currentMedia(s2) # 0
               THEN [s2 EXCEPT !.loadPending = TRUE]
               ELSE s2

(* the key adapter with the two arrows exchanged *)
handleKeydown_arrowsSwapped(s, key) ==
    CASE key = "Escape" -> closeModal(s)
      [] key = "ArrowLeft" -> nextImage(s)
      [] key = "ArrowRight" -> previousImage(s)
      [] key = "z" -> toggleDoubleTabZoom(s)
      [] OTHER -> s

handleKeydown(s, key) ==
    CASE key = "Escape" -> closeModal(s)
      [] key = "ArrowLeft" -> previousImage(s)
      [] key = "ArrowRight" -> nextImage(s)
      [] key = "z" -> toggleDoubleTabZoom(s)
      [] OTHER -> s

(* ------------------------- use:swipe callbacks ------------------------ *)
onSwipeLeft(s) ==
    LET s0 == Log(s, "Swipe left detected", 0) IN
    IF ~s0.isZoomed THEN nextImage(s0) ELSE s0

onSwipeRight(s) ==
    LET s0 == Log(s, "Swipe right detected", 0) IN
    IF ~s0.isZoomed THEN previousImage(s0) ELSE s0

(* the callback of a swipe up, and one that goes back instead *)
onSwipeUp_previous(s) ==
    LET s0 == Log(s, "Swipe up detected", 0) IN
    IF ~s0.isZoomed THEN previousImage(s0) ELSE s0

onSwipeUp(s) ==
    LET s0 == Log(s, "Swipe up detected", 0) IN
    IF ~s0.isZoomed THEN nextImage(s0) ELSE s0

onSwipeDown(s) ==
    LET s0 == Log(s, "Swipe down detected", 0) IN
    IF ~s0.isZoomed THEN previousImage(s0) ELSE s0

(* ----------------------------- gestures.js ---------------------------- *)
(* !v of JavaScript for a coordinate: null, undefined and 0 are falsy      *)
(* a test that takes every value for a recorded start *)
Falsy_never(v) == FALSE

Falsy(v) == v = null \/ v = 0

(* n is event.touches.length, (x, y) the clientX/clientY of touches[0] *)
swipeTouchStart(s, n, x, y) ==
    IF n > 1
    THEN [s EXCEPT !.startX = null, !.startY = null]
    ELSE [s EXCEPT !.startX = x, !.startY = y, !.startTime = s.now,
                   !.isScrolling = FALSE]

(* a move handler that tests the pure vertical scroll first *)
swipeTouchMove_scrollFirst(s, n, x, y) ==
    IF Falsy(s.startX) \/ Falsy(s.startY) THEN s
    ELSE IF n > 1 THEN [s EXCEPT !.startX = null, !.startY = null]
    ELSE LET deltaX == Abs(x - s.startX)
             deltaY == Abs(y - s.startY)
         IN IF deltaY > 10 /\ deltaX < 10 THEN [s EXCEPT !.isScrolling = TRUE]
            ELSE IF deltaY > deltaX /\ deltaY > 10 THEN [s EXCEPT !.isScrolling = FALSE]
            ELSE IF deltaX > deltaY /\ deltaX > 10 THEN [s EXCEPT !.isScrolling = FALSE]
            ELSE s

swipeTouchMove(s, n, x, y) ==
    IF Falsy(s.startX) \/ Falsy(s.startY) THEN s
    ELSE IF n > 1 THEN [s EXCEPT !.startX = null, !.startY = null]
    ELSE LET deltaX == Abs(x - s.startX)
             deltaY == Abs(y - s.startY)
         IN IF deltaY > deltaX /\ deltaY > 10 THEN [s EXCEPT !.isScrolling = FALSE]
            ELSE IF deltaX > deltaY /\ deltaX > 10 THEN [s EXCEPT !.isScrolling = FALSE]
            ELSE IF deltaY > 10 /\ deltaX < 10 THEN [s EXCEPT !.isScrolling = TRUE]
            ELSE s

(* "only process swipes, not scrolls", and one without the time limit *)
swipeRejected_noTimeLimit(scrolling, duration) == scrolling

swipeRejected(scrolling, duration) == scrolling \/ duration > timeLimit

(* (x, y) the clientX/clientY of changedTouches[0] *)
swipeTouchEnd(s, x, y) ==
    IF Falsy(s.startX) \/ Falsy(s.startY) THEN s
    ELSE LET deltaX == x - s.startX
             deltaY == y - s.startY
             duration == s.now - s.startTime
             s1 == [s EXCEPT !.startX = null, !.startY = null]
         IN IF swipeRejected(s1.isScrolling, duration) THEN s1
            ELSE IF Abs(deltaY) > threshold
                 THEN IF deltaY > 0 THEN onSwipeDown(s1) ELSE onSwipeUp(s1)
            ELSE IF Abs(deltaX) > threshold
                 THEN IF deltaX > 0 THEN onSwipeRight(s1) ELSE onSwipeLeft(s1)
            ELSE s1

(* ----------------------------- Gallery.svelte ------------------------- *)
openModal(s, index) ==
    [s EXCEPT !.currentIndex = index, !.modalOpen = TRUE, !.loadPending = TRUE]

(* ------------------- MediaGallery (static gallery page) --------------- *)
(* openModal: this.currentIndex is assigned before item.name is read, so    *)
(* an index without an item leaves the index set and the modal as it was    *)
MediaGallery_openModal(s, index) ==
    IF index >= 0 /\ index < Len(s.gallery.filteredFiles)
    THEN [s EXCEPT !.gallery.currentIndex = index, !.gallery.hidden = FALSE]
    ELSE [s EXCEPT !.gallery.currentIndex = index]

MediaGallery_closeModal(s) == [s EXCEPT !.gallery.hidden = TRUE]

MediaGallery_navigateModal(s, direction) ==
    IF Len(s.gallery.filteredFiles) <= 1 THEN s
    ELSE LET stepped == s.gallery.currentIndex + direction
             index == IF stepped < 0 THEN Len(s.gallery.filteredFiles) - 1
                      ELSE IF stepped >= Len(s.gallery.filteredFiles) THEN 0
                      ELSE stepped
         IN MediaGallery_openModal([s EXCEPT !.gallery.currentIndex = index], index)

(* isUIElement: the element or one of its ancestors matches .modal-close,  *)
(* .nav-btn, .modal-info, button or video; an element is given by its kind *)
isUIElement(element) == element = "ui"

(* bindEvents: the keydown listener of the document *)
MediaGallery_keydown(s, key) ==
    CASE key = "Escape" -> MediaGallery_closeModal(s)
      [] key = "ArrowLeft" -> MediaGallery_navigateModal(s, -1)
      [] key = "ArrowRight" -> MediaGallery_navigateModal(s, 1)
      [] OTHER -> s

(* setupTouchHandling: (x, y) is touches[0] *)
MediaGallery_touchstart(s, element, x, y) ==
    IF s.gallery.hidden \/ isUIElement(element) THEN s
    ELSE [s EXCEPT !.touchHandling =
             [touchStartY |-> y, touchStartX |-> x,
              touchStartTime |-> s.now, isScrolling |-> FALSE]]

MediaGallery_touchmove(s, element, x, y) ==
    IF s.gallery.hidden \/ isUIElement(element) THEN s
    ELSE LET deltaY == Abs(y - s.touchHandling.touchStartY)
             deltaX == Abs(x - s.touchHandling.touchStartX)
         IN IF deltaX > deltaY /\ deltaX > 10
            THEN [s EXCEPT !.touchHandling.isScrolling = FALSE]
            ELSE IF deltaY > 10
            THEN [s EXCEPT !.touchHandling.isScrolling = TRUE]
            ELSE s

(* (x, y) is changedTouches[0] *)
MediaGallery_touchend(s, element, x, y) ==
    IF s.gallery.hidden \/ isUIElement(element) THEN s
    ELSE LET deltaY == y - s.touchHandling.touchStartY
             deltaX == x - s.touchHandling.touchStartX
             touchDuration == s.now - s.touchHandling.touchStartTime
         IN IF ~s.touchHandling.isScrolling /\ touchDuration < 500
            THEN IF Abs(deltaY) > Abs(deltaX) /\ Abs(deltaY) > 50
                 THEN IF deltaY < -50 THEN MediaGallery_navigateModal(s, 1)
                      ELSE IF deltaY > 50 THEN MediaGallery_navigateModal(s, -1)
                      ELSE s
                 ELSE IF Abs(deltaX) > 50
                 THEN IF deltaX < -50 THEN MediaGallery_navigateModal(s, 1)
                      ELSE IF deltaX > 50 THEN MediaGallery_navigateModal(s, -1)
                      ELSE s
                 ELSE s
            ELSE s

(* ------------------------------- actions ------------------------------ *)
NoGallery == [filteredFiles |-> <<>>, currentIndex |-> 0, hidden |-> TRUE]

Init ==
    /\ page \in {"svelte", "gallery"}
    /\ mediaStore = IF page = "svelte" THEN [i \in 1..MaxLen |-> i] ELSE <<>>
    /\ modalOpen = FALSE
    /\ currentIndex = 0
    /\ isTransitioning = FALSE
    /\ isZoomed = FALSE
    /\ isDoubleTabZoomed = FALSE
    /\ isPinching = FALSE
    /\ activeTouches = 0
    /\ lastTap = 0
    /\ mediaElement = "null"
    /\ startX = null
    /\ startY = null
    /\ startTime = 0
    /\ isScrolling = FALSE
    /\ timers = NoTimers
    /\ superseded = NoneSuperseded
    /\ pending = [i \in Items |-> 0]
    /\ loadPending = FALSE
    /\ scale = 1
    /\ touches = [media |-> 0, other |-> 0, chrome |-> 0]
    /\ now = 1000
    /\ console = <<>>
    /\ gallery \in IF page = "gallery"
                   THEN {[NoGallery EXCEPT !.filteredFiles = [i \in 1..n |-> i]] : n \in 0..MaxLen}
                   ELSE {NoGallery}
    /\ touchHandling = [touchStartY |-> 0, touchStartX |-> 0,
                        touchStartTime |-> 0, isScrolling |-> FALSE]
    /\ fingers = [canvas |-> 0, ui |-> 0]

(* a thumbnail of the gallery is clicked *)
OpenModal ==
    /\ page = "svelte"
    /\ ~modalOpen
    /\ \E index \in 0..(Len(filteredMedia(St)) - 1) : Commit(openModal(St, index))

(* the close button or the backdrop is clicked *)
ClickClose ==
    /\ modalOpen
    /\ Commit(closeModal(St))

(* a pending callback runs, one set before the index last changed or a    *)
(* later one                                                               *)
TransitionTimer ==
    \E old \in BOOLEAN :
        /\ IF old THEN superseded.transition > 0
                  ELSE timers.transition > superseded.transition
        /\ Commit(transitionTimeout(
               [St EXCEPT !.timers.transition = @ - 1,
                          !.superseded.transition = IF old THEN @ - 1 ELSE @]))

PinchTimer ==
    \E old \in BOOLEAN :
        /\ IF old THEN superseded.pinch > 0
                  ELSE timers.pinch > superseded.pinch
        /\ Commit(pinchTimeout(
               [St EXCEPT !.timers.pinch = @ - 1,
                          !.superseded.pinch = IF old THEN @ - 1 ELSE @]))

(* a timer of a destroyed instance writes to variables nobody reads *)
StaleTimer ==
    /\ timers.stale > 0
    /\ Commit([St EXCEPT !.timers.stale = @ - 1])

(* the displayed element finishes loading *)
MediaLoad ==
    /\ modalOpen
    /\ loadPending
    /\ currentMedia(St) # 0
    /\ Commit(handleMediaLoad(St))

(* a key goes down; with the focus inside div.modal the event reaches the  *)
(* listener of the div and then the one of svelte:window                   *)
KeyDownOf(keys) ==
    /\ modalOpen
    /\ \E key \in keys, focusInside \in BOOLEAN :
          LET once == handleKeydown(St, key)
              s == IF focusInside /\ once.modalOpen THEN handleKeydown(once, key) ELSE once
          IN /\ TimerCount(s.timers) <= MaxTimers
             /\ Commit(s)

KeyDown == KeyDownOf({"Escape", "ArrowLeft", "ArrowRight", "z"})

(* a click (a tap or the mouse) on the displayed element *)
ClickMedia ==
    /\ modalOpen
    /\ mediaElement = "current"
    /\ Commit(handleDoubleTap(St))

(* the Delete entry of the menu, confirmed *)
ClickDelete ==
    /\ modalOpen
    /\ currentMedia(St) # 0
    /\ PendingCount(pending) < MaxPending
    /\ Commit(deleteRequest(St))

(* the response to a DELETE request arrives; a failed one only alerts *)
DeleteResponse ==
    \E item \in Items, ok \in BOOLEAN :
        /\ pending[item] > 0
        /\ LET s == [St EXCEPT !.pending[item] = @ - 1] IN
           Commit(IF ok THEN deleteResponseOk(s) ELSE s)

(* fingers go down on one element: the displayed media or the rest of the  *)
(* modal; the listeners of the media element run before those of div.modal *)
TouchStartOn(targets, C) ==
    /\ modalOpen
    /\ \E target \in targets, k \in 1..MaxTouches, x \in C, y \in C :
          /\ TouchCount(touches) + k <= MaxTouches
          /\ target = "media" => currentMedia(St) # 0
          /\ LET n == TouchCount(touches) + k
                 s0 == [St EXCEPT !.touches[target] = @ + k]
                 s1 == IF target = "media" /\ mediaElement = "current"
                       THEN handleTouchStart(s0, n) ELSE s0
             IN Commit(swipeTouchStart(s1, n, x, y))

TouchMoveOn(targets, C) ==
    /\ modalOpen
    /\ \E target \in targets, x \in C, y \in C :
          /\ touches[target] > 0
          /\ LET n == TouchCount(touches)
                 s1 == IF target = "media" /\ mediaElement = "current"
                       THEN handleTouchMove(St, n) ELSE St
             IN Commit(swipeTouchMove(s1, n, x, y))

TouchEndOn(targets, C) ==
    /\ modalOpen
    /\ \E target \in targets, k \in 1..MaxTouches, x \in C, y \in C :
          /\ touches[target] >= k
          /\ LET n == TouchCount(touches) - k
                 s0 == [St EXCEPT !.touches[target] = @ - k]
                 s1 == IF target = "media" /\ mediaElement = "current"
                       THEN handleTouchEnd(s0, n) ELSE s0
                 s2 == swipeTouchEnd(s1, x, y)
             IN /\ TimerCount(s2.timers) <= MaxTimers
                /\ Commit(s2)

(* time passes *)
TickTo(T) ==
    \E t \in T :
        /\ t > now
        /\ Commit([St EXCEPT !.now = t])

(* ----------------------- gallery page: the events --------------------- *)
(* a thumbnail is clicked; the open modal covers the thumbnails *)
GalleryOpen ==
    /\ page = "gallery"
    /\ gallery.hidden
    /\ \E index \in 0..(Len(gallery.filteredFiles) - 1) :
          Commit(MediaGallery_openModal(St, index))

(* the close button or the backdrop is clicked *)
GalleryClose ==
    /\ page = "gallery"
    /\ ~gallery.hidden
    /\ Commit(MediaGallery_closeModal(St))

(* the document gets a keydown, whether the modal is shown or not *)
GalleryKeyDown ==
    /\ page = "gallery"
    /\ \E key \in {"Escape", "ArrowLeft", "ArrowRight"} :
          Commit(MediaGallery_keydown(St, key))

(* prevBtn / nextBtn are displayed for more than one file *)
GalleryNavButton ==
    /\ page = "gallery"
    /\ ~gallery.hidden
    /\ Len(gallery.filteredFiles) > 1
    /\ \E direction \in {-1, 1} : Commit(MediaGallery_navigateModal(St, direction))

GalleryTouchStart ==
    /\ page = "gallery"
    /\ ~gallery.hidden
    /\ \E kind \in {"canvas", "ui"}, x \in Coords, y \in Coords :
          /\ fingers.canvas + fingers.ui < MaxTouches
          /\ Commit(MediaGallery_touchstart([St EXCEPT !.fingers[kind] = @ + 1], kind, x, y))

GalleryTouchMove ==
    /\ page = "gallery"
    /\ \E kind \in {"canvas", "ui"}, x \in Coords, y \in Coords :
          /\ fingers[kind] > 0
          /\ Commit(MediaGallery_touchmove(St, kind, x, y))

GalleryTouchEnd ==
    /\ page = "gallery"
    /\ \E kind \in {"canvas", "ui"}, x \in Coords, y \in Coords :
          /\ fingers[kind] > 0
          /\ Commit(MediaGallery_touchend([St EXCEPT !.fingers[kind] = @ - 1], kind, x, y))

(* ---------------- the viewer session: keys and deletes ---------------- *)
Next ==
    \/ OpenModal
    \/ ClickClose
    \/ TransitionTimer
    \/ StaleTimer
    \/ MediaLoad
    \/ KeyDown
    \/ ClickDelete
    \/ DeleteResponse
    \/ GalleryOpen
    \/ GalleryClose
    \/ GalleryKeyDown
    \/ GalleryNavButton

Spec == Init /\ [][Next]_vars

(* ------------- the swipe recogniser driving the navigation ------------ *)
(* the listeners of gestures.js are on div.modal and see every touch of    *)
(* the modal; here the fingers land outside the displayed element          *)
TouchStart == TouchStartOn({"other"}, Coords)

TouchMove == TouchMoveOn({"other"}, Coords)

TouchEnd == TouchEndOn({"other"}, Coords)

Tick == TickTo(GestureTimes)

SwipeNext ==
    \/ OpenModal
    \/ ClickClose
    \/ TransitionTimer
    \/ StaleTimer
    \/ TouchStart
    \/ TouchMove
    \/ TouchEnd
    \/ Tick
    \/ GalleryOpen
    \/ GalleryClose
    \/ GalleryTouchStart
    \/ GalleryTouchMove
    \/ GalleryTouchEnd

SwipeSpec == Init /\ [][SwipeNext]_vars

(* --------------- zoom: pinches, swipes and keys on the media ---------- *)
MediaTouchStart == TouchStartOn({"media"}, CoarseCoords)

MediaTouchMove == TouchMoveOn({"media"}, CoarseCoords)

MediaTouchEnd == TouchEndOn({"media"}, CoarseCoords)

ZoomNext ==
    \/ OpenModal
    \/ ClickClose
    \/ TransitionTimer
    \/ PinchTimer
    \/ StaleTimer
    \/ MediaLoad
    \/ KeyDown
    \/ MediaTouchStart
    \/ MediaTouchMove
    \/ MediaTouchEnd

ZoomSpec == Init /\ [][ZoomNext]_vars

(* -------------------- taps on the media, with the clock --------------- *)
TapTick == TickTo(TapTimes)

TapNext ==
    \/ OpenModal
    \/ ClickClose
    \/ TransitionTimer
    \/ StaleTimer
    \/ MediaLoad
    \/ KeyDown
    \/ ClickMedia
    \/ TapTick

TapSpec == Init /\ [][TapNext]_vars

(* ======================== the claims ================================== *)
(* what the console of an event says *)
Logged(c, m) == \E i \in 1..Len(c) : c[i][1] = m

NavigateCalled(c, d) == \E i \in 1..Len(c) : c[i] = <<"Navigate called", d>>

NavigateActed(c, d) ==
    \E i \in 1..(Len(c) - 1) :
        c[i] = <<"Navigate called", d>> /\ c[i + 1][1] = "Navigating to"

Directions == {-1, 1}

(* C1: whenever the viewer is open and the collection is not empty, the    *)
(* current index is an index of the collection, after any sequence of      *)
(* open, navigate, delete and close.                                       *)
C1_IndexInRange ==
    (modalOpen /\ Len(mediaStore) > 0)
        => (0 <= currentIndex /\ currentIndex < Len(mediaStore))

(* the viewer is open on the last item of a collection that a delete has   *)
(* shortened, right after a navigation                                     *)
C1_Witness ==
    /\ modalOpen
    /\ Len(mediaStore) = MaxLen - 1
    /\ currentIndex = Len(mediaStore) - 1
    /\ isTransitioning
    /\ Logged(console, "Navigating to")

(* C2: an event that asks for a navigation (an arrow key, a swipe in any   *)
(* of the four directions) while isZoomed is true leaves the current index *)
(* as it was.                                                              *)
NavigationRequested(c) ==
    \/ Logged(c, "Navigate called")
    \/ Logged(c, "Swipe left detected")
    \/ Logged(c, "Swipe right detected")
    \/ Logged(c, "Swipe up detected")
    \/ Logged(c, "Swipe down detected")

C2_ZoomBlocksNavigate ==
    [][(isZoomed /\ NavigationRequested(console'))
          => currentIndex' = currentIndex]_vars

(* a swipe was recognised while a pinch had zoomed the media *)
C2_Witness ==
    /\ isZoomed
    /\ ~isDoubleTabZoomed
    /\ Logged(console, "Swipe left detected")
    /\ ~Logged(console, "Navigate called")

(* C3: a navigation that is acted upon is circular: with len >= 2 and the  *)
(* index in range the new index is (currentIndex + d + len) mod len, in    *)
(* the Svelte modal and in the gallery page.                               *)
C3_ModalCircular ==
    [][\A d \in Directions :
          (/\ NavigateActed(console', d)
           /\ Len(mediaStore) >= 2
           /\ 0 <= currentIndex /\ currentIndex < Len(mediaStore))
          => currentIndex' = (currentIndex + d + Len(mediaStore)) % Len(mediaStore)]_vars

C3_GalleryCircular ==
    \A d \in Directions :
        LET len == Len(gallery.filteredFiles) IN
        (len >= 2 /\ 0 <= gallery.currentIndex /\ gallery.currentIndex < len)
        => MediaGallery_navigateModal(St, d).gallery.currentIndex
              = (gallery.currentIndex + d + len) % len

C3_Circular == C3_ModalCircular /\ []C3_GalleryCircular

(* a forward navigation from the last item has wrapped to the first *)
C3_Witness ==
    /\ modalOpen
    /\ Len(mediaStore) >= 2
    /\ NavigateActed(console, 1)
    /\ currentIndex = 0

(* C4: a navigate that arrives while the release timer of an earlier one   *)
(* is pending changes nothing of the session, so two calls within one      *)
(* settle window change the index once.                                    *)
session == <<mediaStore, modalOpen, currentIndex, isTransitioning, isZoomed,
             isDoubleTabZoomed, isPinching, activeTouches, timers, pending>>

C4_SecondNavigateIsNoOp ==
    [][(/\ isTransitioning
        /\ timers.transition > 0
        /\ \E d \in Directions : NavigateCalled(console', d))
       => (UNCHANGED session /\ ~Logged(console', "Navigating to"))]_vars

(* an arrow key was pressed inside the settle window and was blocked *)
C4_Witness ==
    /\ isTransitioning
    /\ ~isZoomed
    /\ timers.transition = 1
    /\ console = <<<<"Navigate called", 1>>, <<"Navigation blocked", 0>>>>

(* the swipe callbacks an event has run, in order *)
SwipeLogs == {"Swipe left detected", "Swipe right detected",
              "Swipe up detected", "Swipe down detected"}

SwipesIn(c) == SelectSeq(c, LAMBDA e : e[1] \in SwipeLogs)

Axis(m) == IF m \in {"Swipe up detected", "Swipe down detected"}
           THEN "Vertical" ELSE "Horizontal"

Max(a, b) == IF a > b THEN a ELSE b

(* one finger is down and its touchstart was the last one the recogniser saw *)
SingleTouchGesture ==
    /\ page = "svelte"
    /\ modalOpen
    /\ TouchCount(touches) = 1
    /\ startX # null
    /\ startY # null

(* C5: the release of a gesture of one finger with max(|dx|,|dy|) >= 50    *)
(* after at most 500 ms is recognised as exactly one swipe, Vertical if    *)
(* |dy| > |dx| and Horizontal otherwise.                                   *)
C5_SwipeRecognised ==
    \A x \in Coords, y \in Coords :
        LET dx == x - startX
            dy == y - startY
            swipes == SwipesIn(swipeTouchEnd(St, x, y).console)
        IN (/\ SingleTouchGesture
            /\ Max(Abs(dx), Abs(dy)) >= 50
            /\ now - startTime <= 500)
           => /\ Len(swipes) = 1
              /\ Axis(swipes[1][1]) = IF Abs(dy) > Abs(dx) THEN "Vertical" ELSE "Horizontal"

(* C6: a release with max(|dx|,|dy|) < 50, or after more than 500 ms, or   *)
(* of a gesture that is not tracked, is no swipe and navigates nowhere, in *)
(* the Svelte recogniser and in the gallery page.                          *)
C6_ModalNoSwipe ==
    \A x \in Coords, y \in Coords :
        LET r == swipeTouchEnd(St, x, y) IN
        (/\ page = "svelte"
         /\ modalOpen
         /\ \/ startX = null
            \/ startY = null
            \/ Max(Abs(x - startX), Abs(y - startY)) < 50
            \/ now - startTime > 500)
        => /\ SwipesIn(r.console) = <<>>
           /\ ~Logged(r.console, "Navigate called")
           /\ r.currentIndex = currentIndex

C6_GalleryNoSwipe ==
    \A x \in Coords, y \in Coords, kind \in {"canvas", "ui"} :
        LET r == MediaGallery_touchend(St, kind, x, y) IN
        (/\ page = "gallery"
         /\ \/ Max(Abs(x - touchHandling.touchStartX),
                   Abs(y - touchHandling.touchStartY)) < 50
            \/ now - touchHandling.touchStartTime > 500)
        => r.gallery = gallery

C7_DoubleTapWindow ==
    [][(ClickMedia /\ lastTap # 0)
       => /\ (isDoubleTabZoomed' # isDoubleTabZoomed)
                 <=> (50 < now - lastTap /\ now - lastTap < 500)
          /\ isZoomed' = IF isDoubleTabZoomed' # isDoubleTabZoomed
                         THEN isDoubleTabZoomed' ELSE isZoomed]_vars

(* the second of two clicks 51 ms apart has zoomed in *)
C7_Witness ==
    /\ isDoubleTabZoomed
    /\ isZoomed
    /\ lastTap = 1051
    /\ now = 1051
    /\ console = <<<<"Double-tap zoom: IN", 0>>>>

(* C8: a swipe left or up asks for navigate(+1), a swipe right or down for *)
(* navigate(-1); left and up are releases to the left of and above the     *)
(* start; an acted-upon forward swipe moves the index to the next item and *)
(* from the last one to the first.                                         *)
C8_Mapping ==
    [][LET c == console'
           len == Len(mediaStore)
       IN /\ (~isZoomed /\ (Logged(c, "Swipe left detected") \/ Logged(c, "Swipe up detected")))
                => /\ NavigateCalled(c, 1)
                   /\ ~NavigateCalled(c, -1)
                   /\ (NavigateActed(c, 1) /\ len > 0)
                         => currentIndex' = (currentIndex + 1) % len
          /\ (~isZoomed /\ (Logged(c, "Swipe right detected") \/ Logged(c, "Swipe down detected")))
                => /\ NavigateCalled(c, -1)
                   /\ ~NavigateCalled(c, 1)
                   /\ (NavigateActed(c, -1) /\ len > 0)
                         => currentIndex' = (currentIndex - 1 + len) % len]_vars

C8_Geometry ==
    \A x \in Coords, y \in Coords :
        LET c == swipeTouchEnd(St, x, y).console IN
        (page = "svelte" /\ modalOpen)
        => /\ Logged(c, "Swipe left detected") => x < startX
           /\ Logged(c, "Swipe right detected") => x > startX
           /\ Logged(c, "Swipe up detected") => y < startY
           /\ Logged(c, "Swipe down detected") => y > startY

C8_SwipeMapsToNavigate == C8_Mapping /\ []C8_Geometry

(* a forward swipe on the last of the items has wrapped to the first *)
C8_Witness ==
    /\ Len(mediaStore) = MaxLen
    /\ currentIndex = 0
    /\ console = <<<<"Swipe left detected", 0>>, <<"Navigate called", 1>>,
                   <<"Navigating to", 0>>>>

(* C9: a delete that succeeds while the viewer is open either empties the  *)
(* collection and closes the viewer, or leaves the viewer open with one    *)
(* item less and the index at min(previous index, new length - 1).         *)
C9_DeleteOutcome ==
    [][(modalOpen /\ Len(mediaStore') < Len(mediaStore))
       => LET len == Len(mediaStore') IN
          IF len = 0
          THEN ~modalOpen'
          ELSE /\ modalOpen'
               /\ len = Len(mediaStore) - 1
               /\ currentIndex' = Min(currentIndex, len - 1)]_vars

(* the last item was deleted and the viewer shows the new last item *)
C9_Witness ==
    /\ modalOpen
    /\ Len(mediaStore) = MaxLen - 1
    /\ currentIndex = Len(mediaStore) - 1
    /\ mediaStore[Len(mediaStore)] = MaxLen - 1
    /\ loadPending
    /\ timers = NoTimers

(* C10: a navigate on a collection of at most one item changes neither the *)
(* index nor the transitioning flag nor the zoom state and schedules no    *)
(* timer.                                                                  *)
C10_NoOpOnSingleItem ==
    [][(/\ Len(mediaStore) <= 1
        /\ \E d \in Directions : NavigateCalled(console', d))
       => UNCHANGED <<currentIndex, isTransitioning, isZoomed,
                      isDoubleTabZoomed, isPinching, timers>>]_vars

(* C11: a touch-down or a touch-move on the displayed media that reports   *)
(* more than one active touch, three at once included, makes the zoom a    *)
(* pinch at once: isZoomed and isPinching are true in the state after it.  *)
C11_PinchOnMultiTouch ==
    [][(/\ MediaTouchStart \/ MediaTouchMove
        /\ mediaElement = "current"
        /\ TouchCount(touches') > 1)
       => (isZoomed' /\ isPinching')]_vars

(* C12: when the settle timer of a finished pinch fires (all touches      *)
(* lifted, the pinch flag still set, no double-tap zoom, no other settle   *)
(* timer pending), isZoomed becomes false.                                 *)
C12_PinchSettles ==
    [][(/\ PinchTimer
        /\ timers.pinch = 1
        /\ isZoomed
        /\ isPinching
        /\ ~isDoubleTabZoomed
        /\ activeTouches = 0
        /\ TouchCount(touches) = 0)
       => ~isZoomed']_vars

(* C13: in every state of the open viewer the displayed media is at scale  *)
(* 2 exactly when the double-tap zoom is on.                               *)
C13_ScaleMatchesMode ==
    (modalOpen /\ currentMedia(St) # 0) => (scale = 2 <=> isDoubleTabZoomed)

(* C14: in the state right after every change of currentIndex and right   *)
(* after every open and close, isZoomed, isDoubleTabZoomed and isPinching  *)
(* are false.                                                              *)
C14_ZoomResetOnChange ==
    [][(currentIndex' # currentIndex \/ modalOpen' # modalOpen)
       => (~isZoomed' /\ ~isDoubleTabZoomed' /\ ~isPinching')]_vars

(* C15: a callback of the open viewer that was set before the displayed    *)
(* index last changed changes neither isTransitioning nor a zoom flag when *)
(* it runs.                                                                *)
C15_SupersededTimerInert ==
    [][(/\ TransitionTimer \/ PinchTimer
        /\ superseded' # superseded)
       => UNCHANGED <<isTransitioning, isZoomed, isDoubleTabZoomed, isPinching>>]_vars

(* ---------- navigate on every collection and every prior index -------- *)
(* the viewer is on display over a list that changed behind it (the filter *)
(* select of the header, the sort and filter selects of the gallery page): *)
(* any length from 0 and any index from 0 to the former length             *)
NavigateInit ==
    /\ page \in {"svelte", "gallery"}
    /\ mediaStore \in IF page = "svelte"
                      THEN {[i \in 1..n |-> i] : n \in 0..MaxLen}
                      ELSE {<<>>}
    /\ modalOpen = (page = "svelte")
    /\ currentIndex \in IF page = "svelte" THEN 0..MaxLen ELSE {0}
    /\ isTransitioning = FALSE
    /\ isZoomed = FALSE
    /\ isDoubleTabZoomed = FALSE
    /\ isPinching = FALSE
    /\ activeTouches = 0
    /\ lastTap = 0
    /\ mediaElement = "null"
    /\ startX = null
    /\ startY = null
    /\ startTime = 0
    /\ isScrolling = FALSE
    /\ timers = NoTimers
    /\ superseded = NoneSuperseded
    /\ pending = [i \in Items |-> 0]
    /\ loadPending = (page = "svelte")
    /\ scale = 1
    /\ touches = [media |-> 0, other |-> 0, chrome |-> 0]
    /\ now = 1000
    /\ console = <<>>
    /\ gallery \in IF page = "gallery"
                   THEN {[filteredFiles |-> [i \in 1..n |-> i], currentIndex |-> c,
                          hidden |-> h] : n \in 0..MaxLen, c \in 0..MaxLen, h \in BOOLEAN}
                   ELSE {NoGallery}
    /\ touchHandling = [touchStartY |-> 0, touchStartX |-> 0,
                        touchStartTime |-> 0, isScrolling |-> FALSE]
    /\ fingers = [canvas |-> 0, ui |-> 0]

ArrowKeyDown == KeyDownOf({"ArrowLeft", "ArrowRight"})

NavigateNext ==
    \/ ArrowKeyDown
    \/ TransitionTimer
    \/ MediaLoad
    \/ GalleryKeyDown
    \/ GalleryNavButton

NavigateSpec == NavigateInit /\ [][NavigateNext]_vars

(* C16: for every length of the collection, 0 included, and every prior    *)
(* index, a navigate never sets the index to a negative value nor to one   *)
(* that is >= max(len, 1).                                                 *)
C16_NavigateStaysInRange ==
    [][/\ (\E d \in Directions : NavigateActed(console', d))
            => (0 <= currentIndex' /\ currentIndex' < Max(Len(mediaStore), 1))
       /\ gallery'.currentIndex # gallery.currentIndex
            => /\ 0 <= gallery'.currentIndex
               /\ gallery'.currentIndex < Max(Len(gallery.filteredFiles), 1)]_vars

(* what an event leaves behind, the console apart *)
Effect(s) == [s EXCEPT !.console = <<>>]

(* C17: Escape leaves the viewer closed from every open state; ArrowLeft   *)
(* has the effect of navigate(-1) and ArrowRight that of navigate(+1),     *)
(* which is none while zoomed or transitioning; the document listener of   *)
(* the gallery page maps the three keys the same way.                      *)
C17_ModalKeys ==
    [][/\ KeyDownOf({"Escape"}) => ~modalOpen'
       /\ KeyDownOf({"ArrowLeft"})
            => /\ Effect(St') = Effect(navigate(St, -1))
               /\ (isZoomed \/ isTransitioning) => Effect(St') = Effect(St)
       /\ KeyDownOf({"ArrowRight"})
            => /\ Effect(St') = Effect(navigate(St, 1))
               /\ (isZoomed \/ isTransitioning) => Effect(St') = Effect(St)]_vars

C17_GalleryKeys ==
    page = "gallery"
    => /\ MediaGallery_keydown(St, "Escape").gallery.hidden
       /\ MediaGallery_keydown(St, "ArrowLeft") = MediaGallery_navigateModal(St, -1)
       /\ MediaGallery_keydown(St, "ArrowRight") = MediaGallery_navigateModal(St, 1)

C17_KeyAdapter == C17_ModalKeys /\ []C17_GalleryKeys

(* an arrow key was pressed while the double-tap zoom was on *)
C17_Witness ==
    /\ modalOpen
    /\ isZoomed
    /\ isDoubleTabZoomed
    /\ ~isTransitioning
    /\ console = <<<<"Navigate called", 1>>, <<"Navigation blocked", 0>>>>

(* ------------- touches that start on the buttons of the viewer -------- *)
(* the close button and the menu buttons are inside div.modal: their       *)
(* touches bubble to the listeners of gestures.js                          *)
ChromeTouchStart == TouchStartOn({"chrome"}, Coords)

ChromeTouchMove == TouchMoveOn({"chrome"}, Coords)

ChromeTouchEnd == TouchEndOn({"chrome"}, Coords)

ChromeNext ==
    \/ OpenModal
    \/ ClickClose
    \/ TransitionTimer
    \/ StaleTimer
    \/ ChromeTouchStart
    \/ ChromeTouchMove
    \/ ChromeTouchEnd
    \/ Tick
    \/ GalleryOpen
    \/ GalleryClose
    \/ GalleryTouchStart
    \/ GalleryTouchMove
    \/ GalleryTouchEnd

ChromeSpec == Init /\ [][ChromeNext]_vars

(* C18: the release of a touch that went down on a button or another       *)
(* control of the viewer runs no swipe callback and navigates nowhere.     *)
C18_ChromeNotTracked ==
    [][/\ ChromeTouchEnd
            => (SwipesIn(console') = <<>> /\ currentIndex' = currentIndex)
       /\ (GalleryTouchEnd /\ fingers'.ui < fingers.ui)
            => gallery' = gallery]_vars

(* the navigate calls an event has made *)
NavigateCalls(c) == SelectSeq(c, LAMBDA e : e[1] = "Navigate called")

(* C19: the release of a finger runs at most one of the four swipe         *)
(* callbacks and makes at most one navigate call; it runs none when no     *)
(* start is recorded (no touch-down since the last release, or a           *)
(* touch-down with more than one finger); on the gallery page a release    *)
(* makes at most one navigateModal call, and none on a control.            *)
C19_ModalOneSwipe ==
    \A x \in Coords, y \in Coords :
        LET c == swipeTouchEnd(St, x, y).console IN
        (page = "svelte" /\ modalOpen /\ TouchCount(touches) > 0)
        => /\ Len(SwipesIn(c)) <= 1
           /\ Len(NavigateCalls(c)) <= 1
           /\ (startX = null \/ startY = null) => SwipesIn(c) = <<>>

C19_GalleryOneSwipe ==
    \A x \in Coords, y \in Coords, kind \in {"canvas", "ui"} :
        LET r == MediaGallery_touchend(St, kind, x, y) IN
        (page = "gallery" /\ fingers[kind] > 0)
        => /\ \/ r = St
              \/ \E d \in Directions : r = MediaGallery_navigateModal(St, d)
           /\ kind = "ui" => r = St

C19_AtMostOneSwipe == C19_ModalOneSwipe /\ C19_GalleryOneSwipe

(* the second of two fingers is still down after the first touch-down was  *)
(* annulled: its release is an up-event without a recorded start           *)
C19_Witness ==
    /\ page = "svelte"
    /\ modalOpen
    /\ TouchCount(touches) = 1
    /\ startX = null
    /\ startY = null
    /\ startTime = 1000
    /\ now = 1499

(* ------------- the session with its timeouts eventually run ----------- *)
(* a callback handed to setTimeout is run by the event loop                *)
FairSpec == Init /\ [][Next]_vars /\ WF_vars(TransitionTimer)

(* C20: a transition that has begun is eventually released, and once the   *)
(* viewer is open, not transitioning and not zoomed on two or more items,  *)
(* a navigate in either direction changes the index.                       *)
C20_Released == isTransitioning ~> ~isTransitioning

C20_NavigateActsAgain ==
    \A d \in Directions :
        (modalOpen /\ ~isTransitioning /\ ~isZoomed /\ Len(mediaStore) >= 2)
        => navigate(St, d).currentIndex # currentIndex

C20_TransitionEnds == C20_Released /\ []C20_NavigateActsAgain

(* a navigate on the loaded media was acted upon and its timeout has run  *)
C20_Witness ==
    /\ modalOpen
    /\ Len(mediaStore) = MaxLen
    /\ mediaElement = "old"
    /\ currentIndex = 1
    /\ ~isTransitioning
    /\ ~isZoomed
    /\ timers = NoTimers

(* C21: a click that is taken for a double tap consumes the recorded tap   *)
(* time: whenever the next click comes, it does not toggle the zoom.       *)
C21_DoubleTapConsumed ==
    [][(ClickMedia /\ isDoubleTabZoomed' # isDoubleTabZoomed)
       => \A t \in TapTimes :
             t >= now'
             => handleDoubleTap([St' EXCEPT !.now = t]).isDoubleTabZoomed
                   = isDoubleTabZoomed']_vars

(* C22: the release of a finger while two or more fingers are down is no   *)
(* swipe, in the recogniser of the viewer and on the gallery page.         *)
C22_ModalMultiTouch ==
    \A x \in Coords, y \in Coords :
        (page = "svelte" /\ modalOpen /\ TouchCount(touches) >= 2)
        => SwipesIn(swipeTouchEnd(St, x, y).console) = <<>>

C22_GalleryMultiTouch ==
    \A x \in Coords, y \in Coords :
        (/\ page = "gallery"
         /\ ~gallery.hidden
         /\ fingers.canvas >= 1
         /\ fingers.canvas + fingers.ui >= 2)
        => MediaGallery_touchend(St, "canvas", x, y).gallery = gallery

C22_MultiTouchNeverSwipes == C22_ModalMultiTouch /\ C22_GalleryMultiTouch

(* C23: once a move sample of a gesture of one finger has decided that the *)
(* gesture is a scroll, no later move sample of the gesture changes that.  *)
C23_ModalDecidedOnce ==
    \A x \in Coords, y \in Coords :
        (page = "svelte" /\ modalOpen /\ TouchCount(touches) = 1 /\ isScrolling)
        => swipeTouchMove(St, 1, x, y).isScrolling

C23_GalleryDecidedOnce ==
    \A x \in Coords, y \in Coords :
        (/\ page = "gallery"
         /\ ~gallery.hidden
         /\ fingers = [canvas |-> 1, ui |-> 0]
         /\ touchHandling.isScrolling)
        => MediaGallery_touchmove(St, "canvas", x, y).touchHandling.isScrolling

C23_ScrollDecidedOnce == C23_ModalDecidedOnce /\ C23_GalleryDecidedOnce

(* the items of a list *)
Listed(list) == {list[i] : i \in 1..Len(list)}

(* C24: the answer to the delete request for an item removes that item     *)
(* from the collection and no other one.                                   *)
C24_DeletesRequestedItem ==
    [][\A item \in Items :
          (pending'[item] < pending[item] /\ mediaStore' # mediaStore)
          => Listed(mediaStore') = Listed(mediaStore) \ {item}]_vars

(* C25: while the two fingers of a recognised pinch are down on the media, *)
(* isZoomed is true.                                                       *)
C25_ZoomedWhilePinching ==
    (/\ modalOpen
     /\ touches.media = 2
     /\ TouchCount(touches) = 2
     /\ isPinching)
    => isZoomed

(* C26: in every state of the modal, isDoubleTabZoomed implies isZoomed.   *)
C26_DoubleTapImpliesZoomed == isDoubleTabZoomed => isZoomed

(* a pinch on the zoomed-in media has ended and its callback is pending *)
C26_Witness ==
    /\ modalOpen
    /\ isDoubleTabZoomed
    /\ isZoomed
    /\ isPinching
    /\ TouchCount(touches) = 0
    /\ timers.pinch = 1

(* C27: a navigation intent never changes whether the viewer is open.     *)
(* In the Svelte modal the handlers exist only while the viewer is open    *)
(* and leave it open.                                                      *)
C27_ModalStaysOpen ==
    (page = "svelte" /\ modalOpen)
    => \A direction \in {-1, 1} : navigate(St, direction).modalOpen

(* On the gallery page an arrow key leaves a closed viewer closed with its *)
(* currentIndex, and an open viewer open.                                  *)
C27_GalleryKeepsOpenness ==
    page = "gallery"
    => \A key \in {"ArrowLeft", "ArrowRight"} :
          LET after == MediaGallery_keydown(St, key).gallery
          IN /\ after.hidden = gallery.hidden
             /\ gallery.hidden => after.currentIndex = gallery.currentIndex

C27_NavigateKeepsOpenness == C27_ModalStaysOpen /\ C27_GalleryKeepsOpenness

(* C28: in the modal isTransitioning is true exactly while a release timer *)
(* of the transition is pending, and at most one such timer is pending.    *)
C28_TransitioningIffTimer ==
    modalOpen => /\ isTransitioning <=> timers.transition > 0
                 /\ timers.transition <= 1

(* a transition of a reopened viewer, the timer of the closed one pending *)
C28_Witness ==
    /\ modalOpen
    /\ isTransitioning
    /\ timers.transition = 1
    /\ timers.stale >= 1
    /\ NavigateActed(console, 1)

(* C29: the callback a single-touch gesture triggers depends only on its   *)
(* displacement and duration: the release of the gesture in progress and   *)
(* the release of the same gesture started at (sx, sy) instead, with the   *)
(* same (dx, dy, duration), trigger the same callback.                     *)
C29_StartIndependent ==
    \A x \in Coords, y \in Coords, sx \in Coords, sy \in Coords :
        LET dx == x - startX
            dy == y - startY
            elsewhere == [St EXCEPT !.startX = sx, !.startY = sy]
        IN SingleTouchGesture
           => SwipesIn(swipeTouchEnd(St, x, y).console)
              = SwipesIn(swipeTouchEnd(elsewhere, sx + dx, sy + dy).console)

(* C30: in the Svelte recogniser isScrolling is false in every state, so   *)
(* the release of a gesture is rejected exactly when it lasted longer than *)
(* the time limit.                                                         *)
C30_NeverScrolling ==
    /\ ~isScrolling
    /\ swipeRejected(isScrolling, now - startTime) <=> now - startTime > timeLimit

(* a finger is down at a place from which a sample straight below it, more *)
(* than 10 px away, is in reach: the sample of a pure vertical scroll      *)
C30_Witness ==
    /\ SingleTouchGesture
    /\ startX = 150
    /\ startY = 100
    /\ now - startTime <= timeLimit
    /\ \E y \in Coords :
          /\ Abs(y - startY) > 10
          /\ swipeTouchMove(St, 1, startX, y) = St

====
